---- MODULE Spec2Model ----
(***************************************************************************)
(* Model of the hierarchical state machine engines of tayne3/hsm:          *)
(*   - the C engine (src/src/smf.c, smf.h): smf_set_initial, smf_set_state,*)
(*     smf_set_terminate, smf_run_state and their static helpers;          *)
(*   - the C++ engine hsm::Machine (src/include/hsm/hsm.hpp).              *)
(* Application hooks are modelled as nondeterministic bodies that may call *)
(* back into the engine.  The C engine executes nested calls recursively,  *)
(* so its control state is an explicit call stack of frames.               *)
(***************************************************************************)
EXTENDS Integers, Sequences, FiniteSets, TLC

NULL == "NULL"

\* ------------------------------------------------------------------------
\* Bounds of the model
\* ------------------------------------------------------------------------
\* smf_set_state calls made by hooks within one top-level engine call
MaxCalls == 1

\* ------------------------------------------------------------------------
\* C engine: constants of smf.c / smf.h
\* ------------------------------------------------------------------------
SMF_ON == 1
SMF_OFF == 0
SMF_EVENT_HANDLED == 0
SMF_EVENT_PROPAGATE == 1

\* The state table driven by the engine: two trees,
\*   R > { P > { A, B }, C }   with R.initial = P, P.initial = A
\*   X                         a root that is a leaf
\* C has no run hook and no exit hook, B has no entry hook.
States == {"R", "P", "A", "B", "C", "X"}

parent ==
  [s \in States |->
     CASE s = "P" -> "R" [] s = "A" -> "P" [] s = "B" -> "P"
       [] s = "C" -> "R" [] OTHER -> NULL]

initial ==
  [s \in States |->
     CASE s = "R" -> "P" [] s = "P" -> "A" [] OTHER -> NULL]

hasEntry == [s \in States |-> s # "B"]
hasRun == [s \in States |-> s # "C"]
hasExit == [s \in States |-> s # "C"]

\* The application: the value each kind of hook passes to smf_set_terminate
\* (documented as non-zero; the caller outside any hook is "ext"), and the
\* userdata pointer it installs.
TermVal == [k \in {"entry", "run", "exit", "ext"} |-> IF k \in {"run", "ext"} THEN 1 ELSE 2]
UserData == {"u1"}

\* ------------------------------------------------------------------------
\* C engine: hierarchy helpers (static functions of smf.c)
\* ------------------------------------------------------------------------
\* faulty variant: starts the walk at the parent, so a state is not its own
\* descendant
RECURSIVE proper_descendant_of(_, _)
proper_descendant_of(state, target_state) ==
  IF state = NULL THEN SMF_OFF
  ELSE IF parent[state] = NULL THEN SMF_OFF
  ELSE IF target_state = parent[state] THEN SMF_ON
  ELSE proper_descendant_of(parent[state], target_state)

RECURSIVE smf__is_descendant_of(_, _)
smf__is_descendant_of(state, target_state) ==
  IF state = NULL THEN SMF_OFF
  ELSE IF target_state = state THEN SMF_ON
  ELSE smf__is_descendant_of(parent[state], target_state)

RECURSIVE smf__get_child_of(_, _)
smf__get_child_of(states, par) ==
  IF states = NULL THEN NULL
  ELSE IF parent[states] = par THEN states
  ELSE smf__get_child_of(parent[states], par)

RECURSIVE lca_walk(_, _)
lca_walk(ancestor, dest) ==
  IF ancestor = NULL THEN NULL
  ELSE IF smf__is_descendant_of(dest, ancestor) = SMF_ON THEN ancestor
  ELSE lca_walk(parent[ancestor], dest)

\* faulty variant: takes the source's parent without testing the destination
lca_no_test(source, dest) == parent[source]

smf__get_lca_of(source, dest) == lca_walk(parent[source], dest)

\* faulty variant: the hook about to run is not recorded
executing_not_tracked(cx, s) == cx

\* ctx->executing = to_execute, before a hook of to_execute is called
track_executing(cx, s) == [cx EXCEPT !.executing = s]

\* faulty variant: ctx->previous is not updated
previous_not_updated(cx, leaf) == [cx EXCEPT !.current = leaf, !.executing = leaf]

\* "Update state variables" of smf_set_state
update_state_variables(cx, leaf) ==
  [cx EXCEPT !.previous = cx.current, !.current = leaf, !.executing = leaf]

\* faulty variant: the boundary is computed from ctx->current
topmost_uses_current(cx, new_state) ==
  IF smf__is_descendant_of(cx.current, new_state) = SMF_ON THEN new_state
  ELSE IF smf__is_descendant_of(new_state, cx.current) = SMF_ON THEN cx.current
  ELSE smf__get_lca_of(cx.current, new_state)

\* faulty variant: the lowest common ancestor is used in every case
topmost_is_lca(cx, new_state) == smf__get_lca_of(cx.executing, new_state)

smf__get_topmost_of(cx, new_state) ==
  IF smf__is_descendant_of(cx.executing, new_state) = SMF_ON THEN new_state
  ELSE IF smf__is_descendant_of(new_state, cx.executing) = SMF_ON THEN cx.executing
  ELSE smf__get_lca_of(cx.executing, new_state)

\* faulty variant: follows one initial link only ("if" for "while")
resolve_one_level(s) == IF initial[s] = NULL THEN s ELSE initial[s]

RECURSIVE resolve_initial(_)
resolve_initial(s) == IF initial[s] = NULL THEN s ELSE resolve_initial(initial[s])

\* faulty variant: leaves the handled flag of the previous cycle
clear_keeps_handled(cx) ==
  [cx EXCEPT !.flags = [is_exit |-> SMF_OFF, terminate |-> SMF_OFF,
                        handled |-> cx.flags.handled, new_state |-> SMF_OFF]]

smf__clear_internal_state(cx) ==
  [cx EXCEPT !.flags = [is_exit |-> SMF_OFF, terminate |-> SMF_OFF,
                        handled |-> SMF_OFF, new_state |-> SMF_OFF]]

\* ------------------------------------------------------------------------
\* C engine: state
\* ------------------------------------------------------------------------
VARIABLES
  ctx,     \* smf_ctx_t
  stack,   \* call stack: engine frames and hook frames, top is the last
  nreq,    \* smf_set_state calls made by hooks in the current top-level call
  last,    \* summary of the engine call that returned in the last step
  termArg, \* the value passed to the most recent smf_set_terminate call since
           \* smf_set_initial last reset the context, 0 if there was none
  hist     \* since the last smf_set_initial: entered, the states whose entry
           \* hook was invoked more recently than their exit hook; clean, no
           \* entry or exit hook has called smf_set_state; broken, a hook
           \* was invoked out of order (an exit hook on a state not in
           \* entered, an entry hook on a state in it), after which entered
           \* is no longer maintained

cvars == <<ctx, stack, nreq, last, termArg, hist>>

hist0 == [entered |-> {}, clean |-> TRUE, broken |-> FALSE]

\* the states that have an entry hook and an exit hook: hist.entered follows
\* these
Paired(s) == hasEntry[s] /\ hasExit[s]

ctx0 ==
  [current |-> NULL, previous |-> NULL, executing |-> NULL,
   userdata |-> NULL, terminate_val |-> 0,
   flags |-> [is_exit |-> SMF_OFF, terminate |-> SMF_OFF,
              handled |-> SMF_OFF, new_state |-> SMF_OFF]]

\* what the properties need of the context a call started in
Snap(cx) == [current |-> cx.current, previous |-> cx.previous,
             executing |-> cx.executing, terminate |-> cx.flags.terminate]

NoLast == [fn |-> "none"]

\* A frame.  fn is "set_initial", "set_state", "run_state" or "hook".
\* Engine frames hold pc and the locals of the C function; hook frames hold
\* kind ("entry", "run", "exit") and st, the state whose hook runs.
\* The other fields are bookkeeping for the properties:
\*   pre      the context when the call started (pre.previous is kept until
\*            the call assigns ctx->previous)
\*   at       the complete context when the call started, kept until the
\*            call has passed its argument checks
\*   from     who called the engine function: "ext" or the kind of the hook
\*   dirty    a smf_set_state call made by a hook running under this engine
\*            call was accepted (it returned 0)
\*   rej      a smf_set_state call made by an exit hook that this engine
\*            call invoked was rejected (it returned -1)
\*   exitTerm "own": an exit hook this engine call invoked has terminated;
\*            "under": an exit hook invoked by a nested call has; else "no"
\*   entTerm  an entry hook this engine call invoked has called
\*            smf_set_terminate
\*   hooks    the hooks this engine call invoked itself, kept while not dirty
\*   outs     run_state: for each run hook that returned, its state and
\*            whether it ended the walk (it returned SMF_EVENT_HANDLED, a
\*            smf_set_state call it made returned 0, or terminate is set)
\*   fresh    hook: the hook was invoked in the last step and has done nothing
\*   inorder  hook: it was invoked in order, or hist was broken already, or
\*            its state lacks one of the two hooks
\*   late     hook: exitTerm of the invoking engine call at the invocation
\*   req      hook: a smf_set_state call made by this hook returned 0
Frame0 ==
  [fn |-> "none", pc |-> "begin", kind |-> "none", st |-> NULL,
   new_state |-> NULL, target |-> NULL, topmost |-> NULL, to_execute |-> NULL,
   saved |-> NULL, userdata |-> NULL, pre |-> Snap(ctx0), at |-> NULL,
   from |-> "ext", dirty |-> FALSE, rej |-> FALSE, exitTerm |-> "no",
   entTerm |-> FALSE, inorder |-> TRUE,
   hooks |-> <<>>, outs |-> <<>>, fresh |-> FALSE, late |-> FALSE, req |-> FALSE]

Top(c) == c.stack[Len(c.stack)]
Pop(s) == SubSeq(s, 1, Len(s) - 1)
SetTop(c, f) == [c EXCEPT !.stack[Len(c.stack)] = [f EXCEPT !.at = NULL]]

\* invoke a hook: the engine frame moves to pc, the hook frame is pushed
CallHook(c, f, pc, kind, s) ==
  LET g == [f EXCEPT !.pc = pc, !.at = NULL,
                     !.hooks = IF f.dirty THEN <<>> ELSE Append(f.hooks, <<kind, s>>)]
      ok == CASE c.hist.broken \/ ~Paired(s) -> TRUE
               [] kind = "entry" -> s \notin c.hist.entered
               [] kind = "exit" -> s \in c.hist.entered
               [] OTHER -> TRUE
      h == [Frame0 EXCEPT !.fn = "hook", !.kind = kind, !.st = s,
                          !.fresh = TRUE, !.late = (f.exitTerm # "no"),
                          !.inorder = ok]
  IN [c EXCEPT !.stack = Append(Pop(c.stack), g) \o <<h>>,
               !.hist = CASE @.broken \/ ~Paired(s) -> @
                          [] ~ok -> [entered |-> {}, clean |-> @.clean, broken |-> TRUE]
                          [] kind = "entry" -> [@ EXCEPT !.entered = @ \cup {s}]
                          [] kind = "exit" -> [@ EXCEPT !.entered = @ \ {s}]
                          [] OTHER -> @]

\* return from the engine function on top of the stack
Return(c, val) ==
  LET f == Top(c)
      s == Pop(c.stack)
      n == Len(s)
  IN
  [c EXCEPT !.stack = IF n > 0 /\ f.fn = "set_state" /\ val = 0
                      THEN [s EXCEPT ![n].req = TRUE] ELSE s,
            !.last = [fn |-> f.fn, target |-> f.target, from |-> f.from,
                      pre |-> f.pre, at |-> f.at, ret |-> val, dirty |-> f.dirty,
                      rej |-> f.rej, exitTerm |-> f.exitTerm, entTerm |-> f.entTerm,
                      hooks |-> f.hooks,
                      outs |-> f.outs, userdata |-> f.userdata]]

\* ------------------------------------------------------------------------
\* C engine: the functions, one step of the frame on top of the stack
\* ------------------------------------------------------------------------
smf__execute_all_entry_actions(c) ==
  LET f == Top(c) IN
  CASE f.pc = "entry_begin" ->
         IF f.new_state = f.topmost THEN Return(c, 0)
         ELSE SetTop(c, [f EXCEPT !.to_execute = smf__get_child_of(f.new_state, f.topmost),
                                  !.pc = "entry_loop"])
    [] f.pc = "entry_loop" ->
         IF f.to_execute # NULL /\ f.to_execute # f.new_state
         THEN LET d == [c EXCEPT !.ctx = track_executing(c.ctx, f.to_execute)] IN
              IF hasEntry[f.to_execute]
              THEN CallHook(d, f, "entry_ret", "entry", f.to_execute)
              ELSE SetTop(d, [f EXCEPT !.to_execute = smf__get_child_of(f.new_state, f.to_execute)])
         ELSE LET d == [c EXCEPT !.ctx = track_executing(c.ctx, f.new_state)] IN
              IF hasEntry[f.new_state]
              THEN CallHook(d, f, "final_ret", "entry", f.new_state)
              ELSE Return([d EXCEPT !.ctx.executing = d.ctx.current], 0)
    [] f.pc = "entry_ret" ->
         IF c.ctx.flags.terminate = SMF_ON
         THEN Return([c EXCEPT !.ctx.executing = c.ctx.current], 0)
         ELSE SetTop(c, [f EXCEPT !.to_execute = smf__get_child_of(f.new_state, f.to_execute),
                                  !.pc = "entry_loop"])
    [] f.pc = "final_ret" ->
         Return([c EXCEPT !.ctx.executing = c.ctx.current], 0)

smf__execute_all_exit_actions(c) ==
  LET f == Top(c) IN
  CASE f.pc = "exit_begin" ->
         SetTop(c, [f EXCEPT !.saved = c.ctx.executing, !.to_execute = c.ctx.current,
                             !.pc = "exit_loop"])
    [] f.pc = "exit_loop" ->
         IF f.to_execute # NULL /\ f.to_execute # f.topmost
         THEN IF hasExit[f.to_execute]
              THEN CallHook([c EXCEPT !.ctx = track_executing(c.ctx, f.to_execute)], f,
                            "exit_ret", "exit", f.to_execute)
              ELSE SetTop(c, [f EXCEPT !.to_execute = parent[f.to_execute]])
         ELSE SetTop([c EXCEPT !.ctx.executing = f.saved], [f EXCEPT !.pc = "self_exit"])
    [] f.pc = "exit_ret" ->
         IF c.ctx.flags.terminate = SMF_ON
         THEN Return([c EXCEPT !.ctx.executing = f.saved], 0)
         ELSE SetTop(c, [f EXCEPT !.to_execute = parent[f.to_execute], !.pc = "exit_loop"])

\* faulty variant: only the NULL target is rejected
rejects_null_only(cx, new_state) == new_state = NULL

\* faulty variant: a NULL state is ignored and success is reported
null_state_ignored == 0 * 1

\* what smf_set_initial and smf_set_state return for a NULL state
null_state_result == -1

\* the argument checks of smf_set_state: a NULL target, a call made while
\* exit actions are running
set_state_rejects(cx, new_state) ==
  IF new_state = NULL THEN TRUE
  ELSE IF cx.flags.is_exit = SMF_ON THEN TRUE
  ELSE FALSE

smf_set_state(c) ==
  LET f == Top(c) IN
  CASE f.pc = "begin" ->
         IF f.new_state = NULL THEN Return(c, null_state_result)
         ELSE IF set_state_rejects(c.ctx, f.new_state) THEN Return(c, -1)
         ELSE SetTop([c EXCEPT !.ctx.flags.is_exit = SMF_ON, !.ctx.flags.new_state = SMF_ON],
                     [f EXCEPT !.topmost = smf__get_topmost_of(c.ctx, f.new_state),
                               !.pc = "exit_begin"])
    [] f.pc \in {"exit_begin", "exit_loop", "exit_ret"} -> smf__execute_all_exit_actions(c)
    [] f.pc = "self_exit" ->
         IF c.ctx.executing = f.new_state /\ hasExit[f.new_state]
         THEN CallHook(c, f, "self_exit_ret", "exit", f.new_state)
         ELSE SetTop(c, [f EXCEPT !.pc = "self_entry"])
    [] f.pc = "self_exit_ret" ->
         IF c.ctx.flags.terminate = SMF_ON THEN Return(c, 0)
         ELSE SetTop(c, [f EXCEPT !.pc = "self_entry"])
    [] f.pc = "self_entry" ->
         LET d == [c EXCEPT !.ctx.flags.is_exit = SMF_OFF] IN
         IF d.ctx.executing = f.new_state /\ hasEntry[f.new_state]
         THEN CallHook(d, f, "self_entry_ret", "entry", f.new_state)
         ELSE SetTop(d, [f EXCEPT !.pc = "resolve"])
    [] f.pc = "self_entry_ret" ->
         IF c.ctx.flags.terminate = SMF_ON THEN Return(c, 0)
         ELSE SetTop(c, [f EXCEPT !.pc = "resolve"])
    [] f.pc = "resolve" ->
         LET leaf == resolve_initial(f.new_state) IN
         SetTop([c EXCEPT !.ctx = update_state_variables(c.ctx, leaf)],
                [f EXCEPT !.new_state = leaf, !.pre.previous = NULL, !.pc = "entry_begin"])
    [] OTHER -> smf__execute_all_entry_actions(c)

smf_set_initial(c) ==
  LET f == Top(c) IN
  CASE f.pc = "begin" ->
         IF f.new_state = NULL THEN Return(c, null_state_result)
         ELSE LET init_state == resolve_initial(f.new_state)
                  topmost == smf__get_child_of(init_state, NULL)
              IN
              IF topmost = NULL THEN Return(c, -1)
              ELSE LET cx == [smf__clear_internal_state(c.ctx) EXCEPT
                                !.current = init_state, !.previous = NULL,
                                !.userdata = f.userdata, !.terminate_val = 0,
                                !.executing = init_state]
                       g == [f EXCEPT !.new_state = init_state, !.topmost = topmost]
                   IN
                   IF hasEntry[topmost]
                   THEN CallHook([c EXCEPT !.ctx = track_executing(cx, topmost),
                                           !.hist = hist0],
                                 g, "root_ret", "entry", topmost)
                   ELSE SetTop([c EXCEPT !.ctx = cx, !.hist = hist0],
                               [g EXCEPT !.pc = "entry_begin"])
    [] f.pc = "root_ret" ->
         LET d == [c EXCEPT !.ctx.executing = f.new_state] IN
         IF d.ctx.flags.terminate = SMF_ON THEN Return(d, 0)
         ELSE SetTop(d, [f EXCEPT !.pc = "entry_begin"])
    [] OTHER -> smf__execute_all_entry_actions(c)

smf__execute_ancestor_run_actions(c) ==
  LET f == Top(c) IN
  CASE f.pc = "anc_begin" ->
         IF c.ctx.flags.terminate = SMF_ON THEN Return(c, c.ctx.terminate_val)
         ELSE IF c.ctx.flags.new_state = SMF_ON \/ c.ctx.flags.handled = SMF_ON
         THEN Return(c, 0)
         ELSE SetTop(c, [f EXCEPT !.to_execute = parent[c.ctx.current], !.pc = "anc_loop"])
    [] f.pc = "anc_loop" ->
         IF f.to_execute # NULL
         THEN LET d == [c EXCEPT !.ctx = track_executing(c.ctx, f.to_execute)] IN
              IF hasRun[f.to_execute]
              THEN CallHook(d, f, "anc_ret", "run", f.to_execute)
              ELSE SetTop(d, [f EXCEPT !.to_execute = parent[f.to_execute]])
         ELSE Return([c EXCEPT !.ctx.executing = c.ctx.current], 0)
    [] f.pc = "anc_ret" ->
         LET d == IF c.rc = SMF_EVENT_HANDLED
                  THEN [c EXCEPT !.ctx.flags.handled = SMF_ON] ELSE c
         IN
         IF d.ctx.flags.terminate = SMF_ON
         THEN Return([d EXCEPT !.ctx.executing = d.ctx.current], d.ctx.terminate_val)
         ELSE IF d.ctx.flags.new_state = SMF_ON \/ d.ctx.flags.handled = SMF_ON
         THEN Return([d EXCEPT !.ctx.executing = d.ctx.current], 0)
         ELSE SetTop(d, [f EXCEPT !.to_execute = parent[f.to_execute], !.pc = "anc_loop"])

\* faulty variant: smf_run_state does not look at the terminate flag
run_state_never_refuses(cx) == FALSE

\* the check smf_run_state makes before anything else
run_state_refuses(cx) == cx.flags.terminate = SMF_ON

smf_run_state(c) ==
  LET f == Top(c) IN
  CASE f.pc = "begin" ->
         IF run_state_refuses(c.ctx) THEN Return(c, c.ctx.terminate_val)
         ELSE LET cx == [smf__clear_internal_state(c.ctx) EXCEPT !.executing = c.ctx.current]
                  d == [c EXCEPT !.ctx = cx]
              IN
              IF hasRun[cx.current]
              THEN CallHook(d, f, "leaf_ret", "run", cx.current)
              ELSE SetTop(d, [f EXCEPT !.pc = "anc_begin"])
    [] f.pc = "leaf_ret" ->
         SetTop(IF c.rc = SMF_EVENT_HANDLED
                THEN [c EXCEPT !.ctx.flags.handled = SMF_ON] ELSE c,
                [f EXCEPT !.pc = "anc_begin"])
    [] OTHER -> smf__execute_ancestor_run_actions(c)

\* faulty variant: raises the flag without storing the value
terminate_flag_only(cx, val) == [cx EXCEPT !.flags.terminate = SMF_ON]

\* faulty variant: stores the value without raising the flag
terminate_value_only(cx, val) == [cx EXCEPT !.terminate_val = val]

smf_set_terminate(cx, val) ==
  [cx EXCEPT !.flags.terminate = SMF_ON, !.terminate_val = val]

\* run the engine until a hook body has control or the top-level call returned
RECURSIVE Run(_)
Run(c) ==
  IF c.stack = <<>> THEN c
  ELSE LET f == Top(c) IN
       CASE f.fn = "hook" -> c
         [] f.fn = "set_state" -> Run(smf_set_state(c))
         [] f.fn = "set_initial" -> Run(smf_set_initial(c))
         [] f.fn = "run_state" -> Run(smf_run_state(c))

\* ------------------------------------------------------------------------
\* C engine: actions
\* ------------------------------------------------------------------------
Cfg ==
  [ctx |-> ctx, stack |-> stack, rc |-> SMF_EVENT_PROPAGATE, last |-> NoLast,
   hist |-> hist]

Commit(d) ==
  /\ ctx' = d.ctx
  /\ stack' = d.stack
  /\ last' = d.last
  /\ hist' = d.hist

Inited == ctx.current # NULL
Idle == stack = <<>>
InHook == stack # <<>> /\ stack[Len(stack)].fn = "hook"

\* a top-level call from the application, outside any hook
Enter(f) ==
  /\ Idle
  /\ nreq' = 0
  /\ LET d == Run([Cfg EXCEPT !.stack = <<[f EXCEPT !.pre = Snap(ctx), !.at = ctx]>>]) IN
     /\ Commit(d)
     /\ termArg' = IF f.fn = "set_initial" /\ ~(d.stack = <<>> /\ d.last.ret = -1)
                   THEN 0 ELSE termArg

CallSetInitial ==
  \E t \in States \cup {NULL}, u \in UserData :
    Enter([Frame0 EXCEPT !.fn = "set_initial", !.new_state = t, !.target = t,
                         !.userdata = u])

CallRunState ==
  /\ Inited
  /\ Enter([Frame0 EXCEPT !.fn = "run_state"])

CallSetState ==
  /\ Inited
  /\ \E t \in States \cup {NULL} :
       Enter([Frame0 EXCEPT !.fn = "set_state", !.new_state = t, !.target = t])

CallSetTerminate ==
  /\ Inited
  /\ Idle
  /\ ctx' = smf_set_terminate(ctx, TermVal["ext"])
  /\ termArg' = TermVal["ext"]
  /\ last' = NoLast
  /\ UNCHANGED <<stack, nreq, hist>>

\* every engine frame on the stack learns that a nested call was accepted
MarkDirty(s) ==
  [i \in 1..Len(s) |->
     IF s[i].fn = "hook" THEN [s[i] EXCEPT !.fresh = FALSE]
     ELSE [s[i] EXCEPT !.dirty = TRUE, !.hooks = <<>>]]

\* the engine frames learn that the exit hook on top of the stack terminated
MarkExitTerm(s) ==
  [i \in 1..Len(s) |->
     IF s[i].fn = "hook" THEN s[i]
     ELSE [s[i] EXCEPT !.exitTerm = IF i = Len(s) - 1 THEN "own"
                                    ELSE IF @ = "own" THEN "own" ELSE "under"]]

\* the engine call below the entry hook on top learns that it terminated
MarkEntryTerm(s) ==
  IF s[Len(s)].kind = "entry" THEN [s EXCEPT ![Len(s) - 1].entTerm = TRUE] ELSE s

\* the hook on top of the stack has acted
Stale(s) == [s EXCEPT ![Len(s)].fresh = FALSE]

\* the engine call below the exit hook on top learns of a rejected request
MarkRej(s) ==
  IF s[Len(s)].kind = "exit" THEN [s EXCEPT ![Len(s) - 1].rej = TRUE] ELSE s

\* the hook that has control calls smf_set_state(ctx, t)
HookSetState ==
  /\ InHook
  /\ nreq < MaxCalls
  /\ \E t \in States \cup {NULL} :
       LET h == stack[Len(stack)]
           f == [Frame0 EXCEPT !.fn = "set_state", !.new_state = t, !.target = t,
                               !.pre = Snap(ctx), !.at = ctx, !.from = h.kind]
           cf == [Cfg EXCEPT !.hist.clean = @ /\ h.kind = "run"]
           try == Run([cf EXCEPT !.stack = Append(Stale(MarkRej(stack)), f)])
       IN IF Len(try.stack) = Len(stack) /\ try.last.ret = -1
          THEN Commit(try)
          ELSE Commit(Run([cf EXCEPT !.stack = Append(MarkDirty(stack), f)]))
  /\ nreq' = nreq + 1
  /\ UNCHANGED termArg

\* the hook that has control calls smf_set_terminate(ctx, v)
HookSetTerminate ==
  /\ InHook
  /\ ctx' = smf_set_terminate(ctx, TermVal[stack[Len(stack)].kind])
  /\ stack' = Stale(IF stack[Len(stack)].kind = "exit" THEN MarkExitTerm(stack)
                     ELSE MarkEntryTerm(stack))
  /\ termArg' = TermVal[stack[Len(stack)].kind]
  /\ last' = NoLast
  /\ UNCHANGED <<nreq, hist>>

\* the hook that has control returns; a run hook returns r
HookReturn ==
  /\ InHook
  /\ \E r \in {SMF_EVENT_HANDLED, SMF_EVENT_PROPAGATE} :
       LET h == stack[Len(stack)]
           s == Pop(stack)
           stop == r = SMF_EVENT_HANDLED \/ h.req \/ ctx.flags.terminate = SMF_ON
           below == IF h.kind = "run"
                    THEN [s EXCEPT ![Len(s)].outs = Append(@, [st |-> h.st, stop |-> stop])]
                    ELSE s
       IN /\ h.kind # "run" => r = SMF_EVENT_PROPAGATE
          /\ Commit(Run([Cfg EXCEPT !.stack = below, !.rc = r]))
  /\ UNCHANGED <<nreq, termArg>>

CInit ==
  /\ ctx = ctx0
  /\ stack = <<>>
  /\ nreq = 0
  /\ last = NoLast
  /\ termArg = 0
  /\ hist = hist0

CNext ==
  \/ CallSetInitial
  \/ CallRunState
  \/ CallSetState
  \/ CallSetTerminate
  \/ HookSetState
  \/ HookSetTerminate
  \/ HookReturn

\* ------------------------------------------------------------------------
\* hsm::Machine (hsm.hpp): constants and the state tree the builder declares
\* ------------------------------------------------------------------------
\* faulty variant: the loop guard trips after a tenth of the transitions
tenth_of_transitions == 100 \div 10

MAX_TRANSITIONS == 100

\* the implicit root state root_, and the registered states
\*   Root > { P > { A, B }, C }
ROOT == "Root"
MStates == {"P", "A", "B", "C"}
UNKNOWN == "unknown"

\* State::parent_ and State::depth_ as Scope::register_ptr sets them
parent_ ==
  [s \in MStates \cup {ROOT} |->
     CASE s = "P" -> ROOT [] s = "C" -> ROOT [] s = "A" -> "P" [] s = "B" -> "P"
       [] OTHER -> NULL]

RECURSIVE depth_(_)
depth_(s) == IF parent_[s] = NULL THEN 0 ELSE depth_(parent_[s]) + 1

\* faulty variant: the common ancestor is always taken to be the root
lca_is_root(a, b) == ROOT

RECURSIVE lca(_, _)
lca(a, b) ==
  IF depth_(a) > depth_(b) THEN lca(parent_[a], b)
  ELSE IF depth_(b) > depth_(a) THEN lca(a, parent_[b])
  ELSE IF a # b THEN lca(parent_[a], parent_[b])
  ELSE a

\* ------------------------------------------------------------------------
\* hsm::Machine: state
\* ------------------------------------------------------------------------
VARIABLES
  mach,       \* the data members of Machine
  path_next,  \* State::path_next_ of the root and of each registered state
  registry,   \* the ids in registry_
  root_handle,\* whether root_.handle_ holds a handler
  mctl,       \* where control is inside start() / handle(), and their locals
  mres,       \* how the last start() / handle() / transition() call ended
  mhist       \* since the last start() that built the state tree: entered,
              \* the states whose on_entry was invoked more recently than
              \* their on_exit; clean, no exception has escaped from a hook,
              \* after which entered is no longer maintained; last, the
              \* target of the latest accepted transition() call that has
              \* not been applied yet

mvars == <<mach, path_next, registry, root_handle, mctl, mres, mhist>>

mhist0 == [entered |-> {}, clean |-> TRUE, last |-> NULL]

mach0 ==
  [active_state_ |-> NULL, executing_state_ |-> NULL, pending_state_ |-> NULL,
   phase_ |-> "Idle", has_pending_ |-> FALSE, started_ |-> FALSE,
   terminated_ |-> FALSE, handled_ |-> FALSE]

\* Control.  op is "none", "start" or "handle"; pc the position in it; hook
\* the kind of the hook that has control ("none", "handle", "on_entry",
\* "on_exit") and hst its state; s, dest, source, common, count the locals.
\* The other fields are bookkeeping for the properties:
\*   retpc    where do_transition returns to
\*   tsrc     the active state when do_transition began
\*   thooks   the hooks the running do_transition has invoked
\*   tclean   no hook has called stop() or transition() during it
\*   tstop    the position in thooks of the hook that first called stop()
\*            during the running do_transition, 0 if none did
\*   treq     the position in thooks of the hook whose transition() call
\*            was first accepted during it, 0 if none was
\*   hfrom    the active state when handle() began
\*   hs       handle(): for each handle hook that returned, its state and
\*            whether it ended the walk (it returned Done, or it or an
\*            earlier caller had called stop() or transition())
\*   acted    stop() or transition() has been called since handle() began,
\*            or a transition was pending when it began
\*   applied  pending transitions applied by process_pending in this call
\*   reqby    the state whose handle hook made the accepted transition()
\*            call that is pending or being applied
\*   hpend    the target that was pending when handle() was called, kept
\*            until the first transition of that call has been applied
\*   alast    the target of the latest transition() call accepted before the
\*            pending transition that is being applied was taken
\*   fresh    the hook that has control has called neither stop() nor
\*            transition() yet
ctl0 ==
  [op |-> "none", pc |-> "none", hook |-> "none", hst |-> NULL, s |-> NULL,
   dest |-> NULL, source |-> NULL, common |-> NULL, count |-> 0, rc |-> "Pass",
   retpc |-> "none", tsrc |-> NULL, thooks |-> <<>>, tclean |-> TRUE,
   tstop |-> 0, treq |-> 0,
   hfrom |-> NULL, hs |-> <<>>, acted |-> FALSE, applied |-> 0,
   reqby |-> NULL, hpend |-> NULL, alast |-> NULL, fresh |-> FALSE]

\* ------------------------------------------------------------------------
\* hsm::Machine: the member functions
\* ------------------------------------------------------------------------
get_state(reg, id) == IF id \in reg THEN id ELSE NULL

\* faulty variant: stop() has no effect
stop_ignored(mm) == mm

stop(mm) == [mm EXCEPT !.terminated_ = TRUE]

started(mm) == mm.started_

terminated(mm) == mm.terminated_

\* faulty variant: a pending transition does not stop the propagation
stops_when_terminated(mm) == mm.terminated_

\* the test handle() makes after a handle hook that did not return Done
propagation_stops(mm) == mm.has_pending_ \/ mm.terminated_

\* faulty variant: a terminated machine cannot be started again
start_refused_while_started(mm) == mm.started_

\* the check start() makes before it touches the machine
start_refused(mm) == mm.started_ /\ ~mm.terminated_

current_state_id(mm) == IF mm.active_state_ # NULL THEN mm.active_state_ ELSE ""

\* faulty variant: the target becomes the active state at once
transition_at_once(mm, dest) == [mm EXCEPT !.active_state_ = dest]

\* faulty variant: records the target without raising has_pending_
transition_without_flag(mm, dest) == [mm EXCEPT !.pending_state_ = dest]

\* faulty variant: a target that is pending already is kept
transition_keeps_first(mm, dest) ==
  IF mm.has_pending_ THEN mm ELSE [mm EXCEPT !.pending_state_ = dest, !.has_pending_ = TRUE]

\* the assignments of transition() once its checks have passed
transition(mm, dest) == [mm EXCEPT !.pending_state_ = dest, !.has_pending_ = TRUE]

\* give control to a hook of state st; the engine resumes at pc
Invoke(c, kind, st, pc) ==
  [c EXCEPT !.hist.entered = CASE ~c.hist.clean -> @
                               [] kind = "on_entry" -> @ \cup {st}
                               [] kind = "on_exit" -> @ \ {st}
                               [] OTHER -> @,
            !.ctl.hook = kind, !.ctl.hst = st, !.ctl.pc = pc, !.ctl.fresh = TRUE,
            !.ctl.thooks = IF kind = "handle" THEN @ ELSE Append(@, <<kind, st>>)]

\* the call ends: normally ("ok") or by the exception named
EndCall(c, how) ==
  [c EXCEPT !.ctl = [ctl0 EXCEPT !.applied = c.ctl.applied], !.res = how,
            !.hist = IF c.ctl.hook # "none" THEN [@ EXCEPT !.entered = {}, !.clean = FALSE]
                      ELSE @]

RECURSIVE set_path_next(_, _, _)
set_path_next(pn, s, common) ==
  IF s = common THEN pn
  ELSE set_path_next([pn EXCEPT ![parent_[s]] = s], parent_[s], common)

do_transition(c) ==
  LET k == c.ctl
      m == c.m
  IN
  CASE k.pc = "dt_begin" ->
         LET src0 == IF m.phase_ = "Entry" /\ m.executing_state_ # NULL
                     THEN m.executing_state_ ELSE m.active_state_
             source == IF src0 = NULL THEN ROOT ELSE src0
             d == [c EXCEPT !.ctl.source = source, !.ctl.tsrc = m.active_state_,
                            !.ctl.thooks = <<>>, !.ctl.tclean = TRUE,
                            !.ctl.tstop = 0, !.ctl.treq = 0]
         IN IF source = k.dest
            THEN Invoke([d EXCEPT !.m.executing_state_ = source],
                        "on_exit", source, "dt_self_exit_ret")
            ELSE [d EXCEPT !.ctl.common = lca(source, k.dest),
                           !.m.phase_ = "Exit",
                           !.ctl.s = source, !.ctl.pc = "dt_exit_loop"]
    [] k.pc = "dt_self_exit_ret" ->
         IF m.terminated_ THEN [c EXCEPT !.ctl.pc = "dt_done"]
         ELSE Invoke([c EXCEPT !.m.executing_state_ = k.dest],
                     "on_entry", k.dest, "dt_self_entry_ret")
    [] k.pc = "dt_self_entry_ret" -> [c EXCEPT !.ctl.pc = "dt_done"]
    [] k.pc = "dt_exit_loop" ->
         IF k.s # k.common
         THEN Invoke([c EXCEPT !.m.executing_state_ = k.s], "on_exit", k.s, "dt_exit_ret")
         ELSE IF k.dest # k.common
         THEN LET pn == set_path_next(c.path_next, k.dest, k.common) IN
              [c EXCEPT !.path_next = pn, !.m.phase_ = "Entry",
                        !.ctl.s = pn[k.common], !.ctl.pc = "dt_entry_loop"]
         ELSE [c EXCEPT !.m.phase_ = "Idle", !.ctl.pc = "dt_done"]
    [] k.pc = "dt_exit_ret" ->
         IF m.terminated_ THEN [c EXCEPT !.m.phase_ = "Idle", !.ctl.pc = "dt_done"]
         ELSE [c EXCEPT !.m.active_state_ = parent_[k.s],
                        !.ctl.s = parent_[k.s], !.ctl.pc = "dt_exit_loop"]
    [] k.pc = "dt_entry_loop" ->
         IF k.s # NULL
         THEN Invoke([c EXCEPT !.m.executing_state_ = k.s], "on_entry", k.s, "dt_entry_ret")
         ELSE [c EXCEPT !.m.phase_ = "Idle", !.ctl.pc = "dt_done"]
    [] k.pc = "dt_entry_ret" ->
         LET d == [c EXCEPT !.m.active_state_ = k.s] IN
         IF m.terminated_ \/ m.has_pending_
         THEN [d EXCEPT !.m.phase_ = "Idle", !.ctl.pc = "dt_done"]
         ELSE IF k.s = k.dest
         THEN [d EXCEPT !.m.phase_ = "Idle", !.ctl.pc = "dt_done"]
         ELSE [d EXCEPT !.ctl.s = c.path_next[k.s], !.ctl.pc = "dt_entry_loop"]
    [] k.pc = "dt_done" ->
         [c EXCEPT !.ctl.pc = k.retpc, !.ctl.s = NULL, !.ctl.source = NULL,
                   !.ctl.common = NULL, !.ctl.tsrc = NULL, !.ctl.thooks = <<>>,
                   !.ctl.tclean = TRUE, !.ctl.tstop = 0, !.ctl.treq = 0,
                   !.ctl.reqby = NULL, !.ctl.hpend = NULL,
                   !.ctl.alast = NULL]

process_pending(c) ==
  LET k == c.ctl
      m == c.m
  IN
  CASE k.pc = "pp_begin" -> [c EXCEPT !.ctl.count = 0, !.ctl.pc = "pp_loop"]
    [] k.pc = "pp_loop" ->
         IF m.has_pending_ /\ ~m.terminated_
         THEN IF k.count + 1 > MAX_TRANSITIONS
              THEN EndCall([c EXCEPT !.m = stop(m)], "runtime_error: loop")
              ELSE [c EXCEPT !.ctl.count = k.count + 1,
                             !.ctl.applied = k.applied + 1,
                             !.ctl.dest = m.pending_state_,
                             !.m.has_pending_ = FALSE,
                             !.m.pending_state_ = NULL,
                             !.ctl.alast = c.hist.last,
                             !.hist.last = NULL,
                             !.ctl.retpc = "pp_loop",
                             !.ctl.pc = "dt_begin"]
         ELSE EndCall(c, "ok")

start(c) ==
  LET k == c.ctl
      m == c.m
  IN
  CASE k.pc = "start_begin" ->
         IF start_refused(m) THEN EndCall(c, "logic_error")
         ELSE LET reg == MStates
                  pn == [s \in MStates \cup {ROOT} |-> IF s = ROOT THEN c.path_next[s] ELSE NULL]
                  init == get_state(reg, k.dest)
                  d == [c EXCEPT !.registry = reg, !.path_next = pn, !.hist = mhist0,
                                 !.root_handle = k.rc = "Done",
                                 !.m.started_ = FALSE, !.m.terminated_ = FALSE,
                                 !.m.has_pending_ = FALSE, !.m.phase_ = "Idle",
                                 !.m.active_state_ = NULL, !.m.pending_state_ = NULL]
              IN IF init = NULL THEN EndCall(d, "invalid_argument")
                 ELSE [d EXCEPT !.m.started_ = TRUE, !.m.active_state_ = ROOT,
                                !.ctl.rc = "Pass", !.ctl.dest = init,
                                !.ctl.retpc = "pp_begin", !.ctl.pc = "dt_begin"]
    [] k.pc \in {"pp_begin", "pp_loop"} -> process_pending(c)
    [] OTHER -> do_transition(c)

handle(c) ==
  LET k == c.ctl
      m == c.m
  IN
  CASE k.pc = "handle_begin" ->
         IF ~m.started_ \/ m.terminated_ THEN EndCall(c, "ok")
         ELSE [c EXCEPT !.m.handled_ = FALSE, !.m.phase_ = "Run",
                        !.ctl.s = m.active_state_, !.ctl.hfrom = m.active_state_,
                        !.ctl.acted = m.has_pending_,
                        !.ctl.hpend = IF m.has_pending_ THEN m.pending_state_ ELSE NULL,
                        !.ctl.pc = "handle_loop"]
    [] k.pc = "handle_loop" ->
         IF k.s # NULL
         THEN LET d == [c EXCEPT !.m.executing_state_ = k.s] IN
              IF k.s = ROOT /\ ~c.root_handle
              THEN [d EXCEPT !.ctl.rc = "Pass", !.ctl.pc = "handle_ret"]
              ELSE Invoke(d, "handle", k.s, "handle_ret")
         ELSE [c EXCEPT !.ctl.pc = "handle_done"]
    [] k.pc = "handle_ret" ->
         IF k.rc = "Done"
         THEN [c EXCEPT !.m.handled_ = TRUE, !.ctl.rc = "Pass", !.ctl.pc = "handle_done"]
         ELSE IF propagation_stops(m)
         THEN [c EXCEPT !.ctl.pc = "handle_done"]
         ELSE [c EXCEPT !.ctl.s = parent_[k.s], !.ctl.pc = "handle_loop"]
    [] k.pc = "handle_done" ->
         [c EXCEPT !.m.phase_ = "Idle", !.ctl.hs = <<>>, !.ctl.hfrom = NULL,
                   !.ctl.acted = FALSE, !.ctl.s = NULL, !.ctl.pc = "pp_begin"]
    [] k.pc \in {"pp_begin", "pp_loop"} -> process_pending(c)
    [] OTHER -> do_transition(c)

MStep(c) == IF c.ctl.op = "start" THEN start(c) ELSE handle(c)

\* positions where the model stops to let the properties look
MPause == {"dt_done", "handle_done"}

\* run until a hook has control, the call has ended, or a pause is reached
RECURSIVE MRun(_)
MRun(c) ==
  IF c.ctl.op = "none" \/ c.ctl.hook # "none" \/ c.ctl.pc \in MPause THEN c
  ELSE MRun(MStep(c))

\* ------------------------------------------------------------------------
\* hsm::Machine: actions
\* ------------------------------------------------------------------------
MCfg ==
  [m |-> mach, path_next |-> path_next, registry |-> registry,
   root_handle |-> root_handle, ctl |-> mctl, res |-> mres, hist |-> mhist]

MCommit(d) ==
  /\ mach' = d.m
  /\ path_next' = d.path_next
  /\ registry' = d.registry
  /\ root_handle' = d.root_handle
  /\ mctl' = d.ctl
  /\ mres' = d.res
  /\ mhist' = d.hist

\* bookkeeping: a transition() call with target id has been accepted
Request(h, id) == [h EXCEPT !.last = id]

MIdle == mctl.op = "none"
MInHook == mctl.hook # "none"

\* start(initial_id, fn, root_handler) called by the application
MCallStart ==
  /\ MIdle
  /\ \E id \in MStates \cup {UNKNOWN}, rh \in {"Done", "Pass"} :
       MCommit(MRun([MCfg EXCEPT !.ctl = [ctl0 EXCEPT !.op = "start", !.pc = "start_begin",
                                                      !.dest = id, !.rc = rh],
                                 !.res = "running"]))

\* handle(evt) called by the application
MCallHandle ==
  /\ MIdle
  /\ MCommit(MRun([MCfg EXCEPT !.ctl = [ctl0 EXCEPT !.op = "handle", !.pc = "handle_begin"],
                               !.res = "running"]))

\* transition(id) called by the application, outside any hook
MCallTransition ==
  /\ MIdle
  /\ \E id \in MStates \cup {UNKNOWN} :
       IF mach.phase_ = "Exit"
       THEN mach' = mach /\ mres' = "runtime_error: exit" /\ mhist' = mhist
       ELSE IF get_state(registry, id) = NULL
       THEN mach' = mach /\ mres' = "runtime_error: id" /\ mhist' = mhist
       ELSE /\ mach' = transition(mach, get_state(registry, id))
            /\ mres' = "ok"
            /\ mhist' = Request(mhist, get_state(registry, id))
  /\ mctl' = ctl0
  /\ UNCHANGED <<path_next, registry, root_handle>>

\* stop() called by the application, outside any hook
MCallStop ==
  /\ MIdle
  /\ mach' = stop(mach)
  /\ mres' = "ok"
  /\ mctl' = ctl0
  /\ UNCHANGED <<path_next, registry, root_handle, mhist>>

\* bookkeeping: the hook that has control has called stop() or transition()
Acted(k) ==
  IF k.hook = "handle" THEN [k EXCEPT !.acted = TRUE, !.fresh = FALSE]
  ELSE [k EXCEPT !.tclean = FALSE, !.fresh = FALSE]

\* bookkeeping: which hook of the running do_transition first called stop(),
\* and which first had a transition() call accepted
Stopped(k) ==
  IF k.hook # "handle" /\ k.tstop = 0 THEN [k EXCEPT !.tstop = Len(k.thooks)] ELSE k

Requested(k) ==
  IF k.hook = "handle" THEN [k EXCEPT !.reqby = k.hst]
  ELSE IF k.treq = 0 THEN [k EXCEPT !.treq = Len(k.thooks)] ELSE k

\* the model resumes after a pause
MContinue ==
  /\ mctl.pc \in MPause
  /\ ~MInHook
  /\ MCommit(MRun(MStep(MCfg)))

\* the hook that has control calls transition(id): an exception it does not
\* catch ends the whole start() / handle() call
MHookTransition ==
  /\ MInHook
  /\ \E id \in MStates \cup {UNKNOWN} :
       IF mach.phase_ = "Exit"
       THEN MCommit(EndCall(MCfg, "runtime_error: exit"))
       ELSE IF get_state(registry, id) = NULL
       THEN MCommit(EndCall(MCfg, "runtime_error: id"))
       ELSE MCommit([MCfg EXCEPT !.m = transition(mach, get_state(registry, id)),
                                 !.hist = Request(mhist, get_state(registry, id)),
                                 !.ctl = Requested(Acted(mctl))])

\* the hook that has control calls stop()
MHookStop ==
  /\ MInHook
  /\ MCommit([MCfg EXCEPT !.m = stop(mach), !.ctl = Stopped(Acted(mctl))])

\* the hook that has control throws an exception of its own
MHookThrow ==
  /\ MInHook
  /\ MCommit(EndCall(MCfg, "hook exception"))

\* the hook that has control returns; a handle hook returns r
MHookReturn ==
  /\ MInHook
  /\ \E r \in {"Done", "Pass"} :
       /\ mctl.hook # "handle" => r = "Pass"
       /\ MCommit(MRun([MCfg EXCEPT
            !.ctl.hook = "none", !.ctl.hst = NULL, !.ctl.rc = r, !.ctl.fresh = FALSE,
            !.ctl.hs = IF mctl.hook = "handle"
                       THEN Append(@, [st |-> mctl.hst, stop |-> r = "Done" \/ mctl.acted])
                       ELSE @]))

MInit ==
  /\ mach = mach0
  /\ path_next = [s \in MStates \cup {ROOT} |-> NULL]
  /\ registry = {}
  /\ root_handle = FALSE
  /\ mctl = ctl0
  /\ mres = "ok"
  /\ mhist = mhist0

MNext ==
  \/ MCallStart
  \/ MCallHandle
  \/ MCallTransition
  \/ MCallStop
  \/ MContinue
  \/ MHookTransition
  \/ MHookStop
  \/ MHookThrow
  \/ MHookReturn

\* ------------------------------------------------------------------------
\* Specifications: the C engine (Spec) and hsm::Machine (SpecM)
\* ------------------------------------------------------------------------
vars == <<cvars, mvars>>

Init == CInit /\ MInit
Next == CNext /\ UNCHANGED mvars
Spec == Init /\ [][Next]_vars

NextM == MNext /\ UNCHANGED cvars
SpecM == Init /\ [][NextM]_vars

\* ------------------------------------------------------------------------
\* Vocabulary of the properties, defined on the state table alone
\* ------------------------------------------------------------------------
\* <<s, parent of s, ..., root of s>>
RECURSIVE Chain(_)
Chain(s) == IF s = NULL THEN <<>> ELSE <<s>> \o Chain(parent[s])

AncSelf(s) == {Chain(s)[i] : i \in 1..Len(Chain(s))}
Depth(s) == Len(Chain(s))
Rev(q) == [i \in 1..Len(q) |-> q[Len(q) + 1 - i]]
Tag(k, q) == [i \in 1..Len(q) |-> <<k, q[i]>>]
IsPrefix(p, q) == Len(p) <= Len(q) /\ \A i \in 1..Len(p) : p[i] = q[i]

\* the deepest state that is s or an ancestor of s, for both a and b
Lca(a, b) ==
  LET cm == AncSelf(a) \cap AncSelf(b) IN
  IF cm = {} THEN NULL ELSE CHOOSE x \in cm : \A y \in cm : Depth(y) <= Depth(x)

\* the states from s up to, excluding, top and everything above it
Below(s, top) == SelectSeq(Chain(s), LAMBDA x : x \notin AncSelf(top))

\* exit hooks child to parent below top; entry hooks parent to child below top
ExitHooks(s, top) == Tag("exit", SelectSeq(Below(s, top), LAMBDA x : hasExit[x]))
EntryHooks(s, top) == Tag("entry", SelectSeq(Rev(Below(s, top)), LAMBDA x : hasEntry[x]))

\* the states reached from s by at most n initial links
RECURSIVE InitReach(_, _)
InitReach(s, n) ==
  IF n = 0 THEN {s}
  ELSE LET r == InitReach(s, n - 1) IN r \cup ({initial[x] : x \in r} \ {NULL})

\* the leaf reached from s by initial links
InitialLeaf(s) == CHOOSE l \in InitReach(s, Cardinality(States)) : initial[l] = NULL

Returned(fn) == last.fn = fn
Terminated == ctx.flags.terminate = SMF_ON
FreshHook == InHook /\ stack[Len(stack)].fresh

\* ------------------------------------------------------------------------
\* C1.  smf_set_state(ctx, L2) called with ctx->executing == ctx->current ==
\* L1, from L1's run hook or outside any hook, L1 and L2 distinct leaves of
\* one tree, no hook terminating or requesting a transition: the hooks
\* invoked are exactly the exit hooks from L1 up to below LCA(L1, L2), child
\* to parent, then the entry hooks from below the LCA down to L2, parent to
\* child; the call returns 0 and ctx->current == L2 afterwards.
\* ------------------------------------------------------------------------
C1_Case ==
  /\ Returned("set_state")
  /\ last.from \in {"run", "ext"}
  /\ last.target # NULL
  /\ last.pre.executing = last.pre.current
  /\ last.target # last.pre.current
  /\ initial[last.target] = NULL
  /\ initial[last.pre.current] = NULL
  /\ Lca(last.pre.current, last.target) # NULL
  /\ ~last.dirty
  /\ ~Terminated

C1_LeafToLeafOrder ==
  C1_Case =>
    LET l1 == last.pre.current
        l2 == last.target
        top == Lca(l1, l2)
    IN /\ last.hooks = ExitHooks(l1, top) \o EntryHooks(l2, top)
       /\ \A i \in 1..Len(last.hooks) : last.hooks[i][2] \notin AncSelf(top)
       /\ last.ret = 0
       /\ ctx.current = l2

\* A -> C from A's run hook: LCA is R, P is exited on the way
C1_Witness ==
  /\ C1_Case
  /\ last.from = "run"
  /\ last.pre.current = "A"
  /\ last.target = "C"
  /\ last.hooks = <<<<"exit", "A">>, <<"exit", "P">>, <<"entry", "C">>>>

\* ------------------------------------------------------------------------
\* C2.  smf_set_initial(ctx, target, userdata) with a non-NULL target returns
\* 0 and installs userdata; the hooks it invokes are entry hooks only, those
\* of the path from the root of the resolved leaf's tree down to the leaf,
\* in that order; when no hook terminates or requests a transition all of
\* them run, each once, ctx->current is the resolved leaf, ctx->previous is
\* NULL and the terminate flag is clear.
\* ------------------------------------------------------------------------
C2_Case == Returned("set_initial") /\ last.target # NULL

RunChain(leaf) == SelectSeq(Chain(leaf), LAMBDA x : hasRun[x])

C3_Case == Returned("run_state") /\ last.pre.terminate = SMF_OFF

C3_RunPropagation ==
  C3_Case =>
    LET ch == RunChain(last.pre.current)
        o == last.outs
    IN /\ Len(o) <= Len(ch)
       /\ \A i \in 1..Len(o) : o[i].st = ch[i]
       /\ \A i \in 1..Len(o) - 1 : ~o[i].stop
       /\ Len(o) < Len(ch) => (Len(o) >= 1 /\ o[Len(o)].stop)
       /\ last.hooks = IF last.dirty THEN <<>> ELSE Tag("run", [i \in 1..Len(o) |-> o[i].st])

\* the leaf A propagates and its parent P handles: exactly two run hooks,
\* R's is not reached
C3_Witness ==
  /\ C3_Case
  /\ last.pre.current = "A"
  /\ last.outs = <<[st |-> "A", stop |-> FALSE], [st |-> "P", stop |-> TRUE]>>
  /\ ctx.flags.handled = SMF_ON

\* ------------------------------------------------------------------------
\* C4.  If an exit hook invoked by smf_set_state calls smf_set_terminate,
\* that call invokes no further hook, ctx->current and ctx->previous keep
\* the values they had before it, and the enclosing smf_run_state returns
\* the termination value.
\* ------------------------------------------------------------------------
C4_ExitTerminationAborts ==
  /\ FreshHook => ~stack[Len(stack)].late
  /\ (Returned("set_state") /\ last.exitTerm = "own") =>
       /\ ctx.current = last.pre.current
       /\ ctx.previous = last.pre.previous
       /\ last.ret = 0
       /\ \A i \in 1..Len(last.hooks) : last.hooks[i][1] = "exit"
  /\ (Returned("run_state") /\ last.exitTerm # "no") =>
       /\ Terminated
       /\ last.ret = ctx.terminate_val
       /\ last.ret # 0

\* A's exit hook terminates a transition A -> C made by A's run hook: P's
\* exit hook and C's entry hook never run
C4_Witness ==
  /\ Returned("set_state")
  /\ last.exitTerm = "own"
  /\ last.from = "run"
  /\ last.pre.current = "A"
  /\ last.target = "C"
  /\ last.hooks = <<<<"exit", "A">>>>
  /\ Len(stack) = 2
  /\ stack[1].fn = "run_state"

\* ------------------------------------------------------------------------
\* C5.  Once smf_set_terminate has been called, no entry, run or exit hook is
\* invoked by any engine operation until smf_set_initial re-initialises the
\* context: every hook is invoked with the terminate flag clear.
\* ------------------------------------------------------------------------
C5_NoHookAfterTerminate == FreshHook => ~Terminated

\* ------------------------------------------------------------------------
\* C6.  smf_set_state(ctx, S) called while ctx->executing == ctx->current ==
\* S, not from an exit hook, no hook terminating or requesting a transition:
\* the hooks invoked are exactly S's exit hook and then S's entry hook, the
\* call returns 0 and ctx->current == S afterwards.
\* ------------------------------------------------------------------------
C6_Case ==
  /\ Returned("set_state")
  /\ last.from # "exit"
  /\ last.target # NULL
  /\ last.pre.executing = last.target
  /\ last.pre.current = last.target
  /\ ~last.dirty
  /\ ~Terminated

C6_SelfTransition ==
  C6_Case =>
    LET S == last.target IN
    /\ last.hooks = (IF hasExit[S] THEN <<<<"exit", S>>>> ELSE <<>>)
                      \o (IF hasEntry[S] THEN <<<<"entry", S>>>> ELSE <<>>)
    /\ last.ret = 0
    /\ ctx.current = S

C6_Witness ==
  /\ C6_Case
  /\ last.from = "run"
  /\ last.target = "A"
  /\ last.hooks = <<<<"exit", "A">>, <<"entry", "A">>>>

\* ------------------------------------------------------------------------
\* C7.  smf_set_state called from inside an exit hook returns -1, invokes no
\* hook and changes no field of the context; the transition that invoked
\* the exit hook then completes to its own destination and returns 0 (no
\* hook terminating, no other request accepted).
\* ------------------------------------------------------------------------
C7_Case ==
  /\ Returned("set_state")
  /\ last.rej
  /\ ~last.dirty
  /\ ~Terminated

C7_RejectedInExit ==
  /\ (Returned("set_state") /\ last.from = "exit") =>
       /\ last.ret = -1
       /\ last.hooks = <<>>
       /\ last.at = ctx
       /\ InHook /\ stack[Len(stack)].kind = "exit" /\ ~stack[Len(stack)].req
  /\ C7_Case =>
       /\ last.ret = 0
       /\ ctx.current = InitialLeaf(last.target)
       /\ ctx.flags.is_exit = SMF_OFF

\* A's exit hook, running for a transition A -> C, asked for another target
C7_Witness ==
  /\ C7_Case
  /\ last.pre.current = "A"
  /\ last.target = "C"
  /\ ctx.current = "C"
  /\ last.hooks = <<<<"exit", "A">>, <<"exit", "P">>, <<"entry", "C">>>>


\* ------------------------------------------------------------------------
\* Vocabulary of the hsm::Machine properties, defined on the state tree alone
\* ------------------------------------------------------------------------
\* <<s, parent of s, ..., the implicit root>>
RECURSIVE MChain(_)
MChain(s) == IF s = NULL THEN <<>> ELSE <<s>> \o MChain(parent_[s])

MAncSelf(s) == {MChain(s)[i] : i \in 1..Len(MChain(s))}

\* the deepest state that is a or an ancestor of a, and b or an ancestor of b
MLca(a, b) ==
  LET cm == MAncSelf(a) \cap MAncSelf(b) IN
  CHOOSE x \in cm : \A y \in cm : Len(MChain(y)) <= Len(MChain(x))

\* the states from s up to, excluding, top
MBelow(s, top) == SelectSeq(MChain(s), LAMBDA x : x \notin MAncSelf(top))

\* ------------------------------------------------------------------------
\* C8.  hsm::Machine: when a transition to dest is applied (a pending one, or
\* the initial one made by start(), whose source is the implicit root), dest
\* is not the active state and no hook calls stop() or transition(), then
\* on_exit runs for the active state and its ancestors strictly below
\* lca(active, dest), child to parent, then on_entry runs for the states
\* strictly below that lca on the path to dest, parent to child, ending with
\* dest; the lca gets neither hook, and afterwards current_state_id() is
\* dest's id.
\* ------------------------------------------------------------------------
C8_Case ==
  /\ mctl.pc = "dt_done"
  /\ ~MInHook
  /\ mctl.tclean
  /\ mctl.dest # mctl.tsrc

C8_MachineTransitionOrder ==
  C8_Case =>
    LET top == MLca(mctl.tsrc, mctl.dest) IN
    /\ mctl.thooks = Tag("on_exit", MBelow(mctl.tsrc, top))
                       \o Tag("on_entry", Rev(MBelow(mctl.dest, top)))
    /\ \A i \in 1..Len(mctl.thooks) : mctl.thooks[i][2] # top
    /\ current_state_id(mach) = mctl.dest

C8_Witness ==
  /\ C8_Case
  /\ mctl.tsrc = "A"
  /\ mctl.dest = "C"
  /\ mctl.thooks = <<<<"on_exit", "A">>, <<"on_exit", "P">>, <<"on_entry", "C">>>>
  /\ current_state_id(mach) = "C"

\* ------------------------------------------------------------------------
\* C9.  hsm::Machine::handle(evt) on a started, non-terminated machine
\* invokes the handle hooks starting at the active state and going through
\* its ancestors, child to parent, up to and including the implicit root
\* (its root_handler, if there is one), each at most once; it stops after
\* the first hook that returns Done or after which a transition is pending
\* or the machine is terminated, even if that hook returned Pass.
\* ------------------------------------------------------------------------
C9_Case == mctl.pc = "handle_done" /\ ~MInHook

\* the hooks on the way from s to the root
HandleChain(s) == SelectSeq(MChain(s), LAMBDA x : x # ROOT \/ root_handle)

C9_HandlePropagation ==
  C9_Case =>
    LET hs == mctl.hs
        n == Len(hs)
        chain == HandleChain(mctl.hfrom)
    IN
    /\ IsPrefix([i \in 1..n |-> hs[i].st], chain)
    /\ \A i \in 1..(n - 1) : ~hs[i].stop
    /\ n < Len(chain) => n >= 1 /\ hs[n].stop

C9_Witness ==
  /\ C9_Case
  /\ mctl.hfrom = "A"
  /\ Len(mctl.hs) = 2
  /\ mctl.hs[2] = [st |-> "P", stop |-> TRUE]
  /\ ~mach.handled_
  /\ mach.has_pending_

\* ------------------------------------------------------------------------
\* C10.  hsm::Machine: within one start() or handle() call at most
\* MAX_TRANSITIONS (100) pending transitions are applied; if a further
\* transition is still pending after that, the machine is marked terminated
\* and std::runtime_error is raised.  So a cycle of entry hooks that each
\* request a new transition ends with that error after a bounded number of
\* transitions.
\* ------------------------------------------------------------------------
C10_TransitionLoopGuard ==
  /\ mctl.applied <= 100
  /\ mres = "runtime_error: loop" =>
        MIdle /\ mach.terminated_ /\ mach.has_pending_ /\ mctl.applied = 100
  /\ (MIdle /\ mres = "ok" /\ mctl.applied > 0) =>
        ~(mach.has_pending_ /\ ~mach.terminated_)

C10_Witness ==
  /\ mres = "runtime_error: loop"
  /\ mach.terminated_
  /\ mctl.applied = 100


\* ------------------------------------------------------------------------
\* C11.  hsm::Machine::transition(id) only records the target: while the
\* handle hooks of a handle() call are running, no on_exit or on_entry hook
\* is invoked and current_state_id() does not change; the recorded
\* transition is applied only after the propagation loop of that call has
\* ended.
\* ------------------------------------------------------------------------
\* the propagation loop of handle() is running, or has just ended
C11_Case ==
  /\ mctl.op = "handle"
  /\ mctl.pc \in {"handle_ret", "handle_done"}

C11_TransitionIsDeferred ==
  C11_Case =>
    /\ mctl.thooks = <<>>
    /\ mctl.applied = 0
    /\ current_state_id(mach) = mctl.hfrom
    /\ mach.phase_ = "Run"

\* the handle hook of P, reached from the active state A, has requested a
\* transition to C and still has control
C11_Witness ==
  /\ C11_Case
  /\ mctl.hook = "handle"
  /\ mctl.hst = "P"
  /\ mctl.hfrom = "A"
  /\ mach.has_pending_
  /\ mach.pending_state_ = "C"
  /\ current_state_id(mach) = "A"

\* ------------------------------------------------------------------------
\* C12.  hsm::Machine: a transition requested by an on_entry hook while the
\* entry chain of a transition toward dest is in progress is deferred until
\* that transition has fully settled: the remaining on_entry hooks down to
\* dest still run and dest becomes the active state before the newly
\* requested transition is applied.
\* ------------------------------------------------------------------------
\* do_transition has returned, one of its on_entry hooks had a transition()
\* call accepted, and no hook has called stop()
C12_Case ==
  /\ mctl.pc = "dt_done"
  /\ ~MInHook
  /\ mctl.treq # 0
  /\ mctl.thooks[mctl.treq][1] = "on_entry"
  /\ mctl.tstop = 0

C12_EntryChainCompletes ==
  C12_Case =>
    /\ mctl.thooks[Len(mctl.thooks)] = <<"on_entry", mctl.dest>>
    /\ current_state_id(mach) = mctl.dest

\* ------------------------------------------------------------------------
\* C13.  hsm::Machine: if an on_exit hook calls stop() while a transition is
\* being applied, no further on_exit hook and no on_entry hook is invoked,
\* and current_state_id() afterwards is still the id of the state that was
\* active before the transition started.
\* ------------------------------------------------------------------------
\* do_transition has returned and one of its on_exit hooks called stop()
C13_Case ==
  /\ mctl.pc = "dt_done"
  /\ ~MInHook
  /\ mctl.tstop # 0
  /\ mctl.thooks[mctl.tstop][1] = "on_exit"

C13_StopInExit ==
  C13_Case =>
    /\ Len(mctl.thooks) = mctl.tstop
    /\ current_state_id(mach) = mctl.tsrc

\* ------------------------------------------------------------------------
\* C14.  hsm::Machine::transition(id) called from inside any on_exit hook (of
\* a state being exited as part of a transition, the exit half of a
\* self-transition included) throws std::runtime_error and leaves the
\* pending-transition slot unchanged: no such call is ever accepted.
\* ------------------------------------------------------------------------
C14_NoTransitionFromExit ==
  mctl.treq # 0 => mctl.thooks[mctl.treq][1] # "on_exit"


\* ------------------------------------------------------------------------
\* C15.  C engine: when the run hook of a composite state P that is a proper
\* ancestor of the current leaf (ctx->executing == P) calls
\* smf_set_state(ctx, P), the hooks invoked are the exit hooks from the
\* current leaf up to the child of P, child to parent, then P's exit, then
\* P's entry, then the entry hooks from P's child down to the leaf reached
\* through P's initial chain; afterwards ctx->current is that leaf, and no
\* run hook of a state above P runs in that cycle (no hook terminating or
\* making a further request).
\* ------------------------------------------------------------------------
C15_Case ==
  /\ Returned("set_state")
  /\ last.from = "run"
  /\ last.target # NULL
  /\ last.pre.executing = last.target
  /\ last.pre.current # last.target
  /\ last.target \in AncSelf(last.pre.current)
  /\ ~last.dirty
  /\ ~Terminated

C15_CompositeSelfTransition ==
  /\ C15_Case =>
       LET P == last.target
           leaf == InitialLeaf(P)
       IN /\ last.hooks = ExitHooks(last.pre.current, P)
                             \o (IF hasExit[P] THEN <<<<"exit", P>>>> ELSE <<>>)
                             \o (IF hasEntry[P] THEN <<<<"entry", P>>>> ELSE <<>>)
                             \o EntryHooks(leaf, P)
          /\ last.ret = 0
          /\ ctx.current = leaf
  /\ (FreshHook /\ stack[Len(stack)].kind = "run") =>
       \A i \in 1..Len(stack[Len(stack) - 1].outs) : ~stack[Len(stack) - 1].outs[i].stop

\* P's run hook, reached from the leaf B, asks for P
C15_Witness ==
  /\ C15_Case
  /\ last.target = "P"
  /\ last.pre.current = "B"
  /\ last.hooks = <<<<"exit", "B">>, <<"exit", "P">>, <<"entry", "P">>, <<"entry", "A">>>>
  /\ ctx.current = "A"
  /\ Len(stack) = 2
  /\ stack[1].outs = <<[st |-> "B", stop |-> FALSE]>>

\* ------------------------------------------------------------------------
\* C16.  C engine: smf_set_state(ctx, T) with a target T whose initial link
\* is non-NULL ends with ctx->current equal to the leaf reached by following
\* initial links from T, and within the same call the entry hooks of T's
\* initial-chain descendants fire parent before child down to that leaf (the
\* call being accepted, no hook terminating or making a further request).
\* ------------------------------------------------------------------------
C16_Case ==
  /\ Returned("set_state")
  /\ last.target # NULL
  /\ initial[last.target] # NULL
  /\ last.ret = 0
  /\ ~last.dirty
  /\ ~Terminated

C16_InitialDescent ==
  C16_Case =>
    LET leaf == InitialLeaf(last.target)
        want == EntryHooks(leaf, last.target)
        n == Len(last.hooks)
    IN /\ ctx.current = leaf
       /\ ctx.executing = leaf
       /\ Len(want) <= n
       /\ SubSeq(last.hooks, n - Len(want) + 1, n) = want

\* from the leaf C the application asks for the composite R: P then A are
\* entered
C16_Witness ==
  /\ C16_Case
  /\ last.from = "ext"
  /\ last.pre.current = "C"
  /\ last.target = "R"
  /\ last.hooks = <<<<"entry", "P">>, <<"entry", "A">>>>
  /\ ctx.current = "A"

\* ------------------------------------------------------------------------
\* C17.  C engine: for smf_set_state(ctx, T) where T is a proper ancestor of
\* ctx->current and T is not the state whose hook requested the transition,
\* T's own exit and entry hooks are not invoked; only states strictly below
\* T are exited and entered.
\* ------------------------------------------------------------------------
C17_Case ==
  /\ Returned("set_state")
  /\ last.target # NULL
  /\ last.pre.current # last.target
  /\ last.target \in AncSelf(last.pre.current)
  /\ last.pre.executing # last.target
  /\ ~last.dirty

C17_AncestorTargetKeepsHooks ==
  C17_Case =>
    \A i \in 1..Len(last.hooks) :
      /\ last.hooks[i][2] # last.target
      /\ last.target \in AncSelf(last.hooks[i][2])

\* ------------------------------------------------------------------------
\* C18.  C engine: after the terminate flag is set, every subsequent
\* smf_run_state call, however many times repeated, returns the same stored
\* termination value, invokes no hook and changes no field of the context.
\* ------------------------------------------------------------------------
C18_Case == Returned("run_state") /\ last.pre.terminate = SMF_ON

C18_RunAfterTerminate ==
  C18_Case =>
    /\ last.ret = termArg
    /\ last.hooks = <<>>
    /\ last.outs = <<>>
    /\ last.at = ctx
    /\ Idle

\* the call after a termination requested by an entry or exit hook
C18_Witness ==
  /\ C18_Case
  /\ last.ret = TermVal["exit"]
  /\ ctx.current = "A"

\* ------------------------------------------------------------------------
\* C19.  C engine: smf_run_state returns 0 if the terminate flag is not set
\* when the call ends, and otherwise the value passed to the most recent
\* smf_set_terminate, also when termination was requested by an entry or
\* exit hook of a transition triggered during that same call.
\* ------------------------------------------------------------------------
C19_RunStateResult ==
  Returned("run_state") => last.ret = (IF Terminated THEN termArg ELSE 0)

\* a transition made by a run hook of this call was terminated by one of its
\* entry or exit hooks
C19_Witness ==
  /\ Returned("run_state")
  /\ last.pre.terminate = SMF_OFF
  /\ last.dirty
  /\ Terminated
  /\ last.ret = TermVal["entry"]
  /\ termArg = TermVal["entry"]

\* ------------------------------------------------------------------------
\* C20.  C engine: smf_set_initial with a NULL state returns -1, and
\* smf_set_state with a NULL target returns -1, invokes no hook and leaves
\* ctx->current, ctx->previous, ctx->executing and the flags unchanged.
\* ------------------------------------------------------------------------
C20_Case == last.fn \in {"set_initial", "set_state"} /\ last.target = NULL

C20_NullStateRejected ==
  C20_Case =>
    /\ last.ret = -1
    /\ last.hooks = <<>>
    /\ last.at = ctx

\* a run hook passes NULL to smf_set_state while the machine runs
C20_Witness ==
  /\ C20_Case
  /\ last.fn = "set_state"
  /\ last.from = "run"
  /\ last.ret = -1
  /\ ctx.current = "A"

\* ------------------------------------------------------------------------
\* C21.  C engine: smf_set_state between states of different trees (no
\* common ancestor), made while ctx->executing is the current leaf or one of
\* its ancestors and not from an exit hook, no hook terminating or
\* requesting a transition: the call returns 0 and invokes the exit hooks of
\* the source leaf and of all its ancestors, root included, child to parent,
\* then the entry hooks from the root of the destination's tree down to the
\* destination leaf, parent to child.
\* ------------------------------------------------------------------------
C21_Case ==
  /\ Returned("set_state")
  /\ last.from # "exit"
  /\ last.target # NULL
  /\ Lca(last.pre.current, last.target) = NULL
  /\ last.pre.executing \in AncSelf(last.pre.current)
  /\ ~last.dirty
  /\ ~Terminated

C21_WitnessBack ==
  /\ C21_Case
  /\ last.pre.current = "X"
  /\ last.target = "R"
  /\ ctx.current = "A"

C23_CurrentLeafInHooks ==
  FreshHook =>
    LET h == stack[Len(stack)]
        f == stack[Len(stack) - 1]
    IN ~f.dirty =>
         /\ (h.kind = "exit" /\ f.fn = "set_state") => ctx.current = f.pre.current
         /\ (h.kind = "entry" /\ f.fn \in {"set_initial", "set_state"}) =>
              ctx.current = InitialLeaf(f.target)

\* ------------------------------------------------------------------------
\* C24.  C engine: after a smf_set_state call that completes its transition
\* (returns 0, no hook terminating or requesting a transition) ctx->previous
\* is the leaf that was current immediately before the call; after
\* smf_set_initial it is NULL; a call rejected with -1 or aborted by
\* termination in one of its exit hooks leaves it unchanged.
\* ------------------------------------------------------------------------
C24_Completed ==
  /\ Returned("set_state")
  /\ last.ret = 0
  /\ ~last.dirty
  /\ ~Terminated

C24_PreviousLeaf ==
  /\ C24_Completed => ctx.previous = last.pre.current
  /\ (Returned("set_initial") /\ last.ret = 0 /\ ~last.dirty) => ctx.previous = NULL
  /\ (last.fn \in {"set_initial", "set_state"} /\ last.ret = -1) =>
       ctx.previous = last.at.previous
  /\ (Returned("set_state") /\ last.exitTerm = "own") =>
       ctx.previous = last.pre.previous

\* the second transition in a row: A -> C after some transition that left A
\* current and a non-NULL previous leaf behind
C24_Witness ==
  /\ C24_Completed
  /\ last.pre.current = "A"
  /\ last.target = "C"
  /\ ctx.previous = "A"
  /\ ctx.current = "C"

\* a self-transition of the leaf A: previous and current are the same leaf
C24_WitnessSelf ==
  /\ C24_Completed
  /\ last.pre.current = "A"
  /\ last.target = "A"
  /\ ctx.previous = "A"
  /\ ctx.current = "A"

\* ------------------------------------------------------------------------
\* C25.  C engine: once smf_set_initial has succeeded, in every reachable
\* state, between and inside calls, ctx->current is a state whose initial
\* link is NULL.
\* ------------------------------------------------------------------------
C25_CurrentIsLeaf == Inited => initial[ctx.current] = NULL

\* a transition that named the composite R has ended at the leaf A
C25_Witness ==
  /\ Returned("set_state")
  /\ last.target = "R"
  /\ last.pre.current = "C"
  /\ last.ret = 0
  /\ ctx.current = "A"

\* ------------------------------------------------------------------------
\* C30.  C engine: if an entry hook invoked by smf_set_initial calls
\* smf_set_terminate(v), smf_set_initial invokes no further hook and still
\* returns 0, and a smf_run_state call made next returns v, invokes no run
\* hook and returns at once.
\* ------------------------------------------------------------------------
C30_InInitial ==
  /\ (FreshHook /\ stack[Len(stack) - 1].fn = "set_initial") =>
       ~stack[Len(stack) - 1].entTerm
  /\ (Returned("set_initial") /\ last.entTerm) => last.ret = 0

C30_NextRun ==
  (Returned("set_initial") /\ last.entTerm /\ Idle /\ last'.fn = "run_state") =>
    /\ last'.ret = termArg
    /\ termArg = TermVal["entry"]
    /\ last'.hooks = <<>>
    /\ last'.outs = <<>>
    /\ stack' = <<>>

C30_TerminateInInitialEntry == []C30_InInitial /\ [][C30_NextRun]_vars

\* R's entry hook terminated the initialisation at A: the entry hooks of P
\* and A did not run, and the following smf_run_state returned v
C30_Witness ==
  /\ Returned("set_initial")
  /\ last.entTerm
  /\ last.target = "A"
  /\ last.hooks = <<<<"entry", "R">>>>
  /\ last.ret = 0
  /\ ctx.current = "A"

C30_WitnessRun ==
  /\ Returned("run_state")
  /\ last.pre.terminate = SMF_ON
  /\ last.ret = TermVal["entry"]
  /\ last.hooks = <<>>
  /\ ctx.previous = NULL
  /\ ctx.current = "A"
  /\ termArg = TermVal["entry"]

\* ------------------------------------------------------------------------
\* C26.  hsm::Machine: when the first transition applied by a handle() call
\* is a transition of a state S to itself - requested by the handle hook of
\* S, S being the active state or an ancestor of it, or requested from
\* outside with the active state's own id - and no on_exit / on_entry hook
\* calls stop() or transition(), then S.on_exit and after it S.on_entry are
\* invoked and the active state is afterwards the same as before.
\* ------------------------------------------------------------------------
C26_Case ==
  /\ mctl.pc = "dt_done"
  /\ ~MInHook
  /\ mctl.op = "handle"
  /\ mctl.applied = 1
  /\ mctl.tclean
  /\ \/ mctl.reqby = mctl.dest
     \/ mctl.reqby = NULL /\ mctl.dest = mctl.tsrc

C26_SelfTransitionHooks ==
  C26_Case =>
    /\ \E i, j \in 1..Len(mctl.thooks) :
         /\ i < j
         /\ mctl.thooks[i] = <<"on_exit", mctl.dest>>
         /\ mctl.thooks[j] = <<"on_entry", mctl.dest>>
    /\ mach.active_state_ = mctl.tsrc

\* ------------------------------------------------------------------------
\* C27.  hsm::Machine: once stop() has been called (terminated() is true
\* from then until start() is called again), no handle, on_entry or on_exit
\* hook is invoked and no pending transition is applied; handle() on a
\* machine that was never started invokes no hook and changes nothing.
\* ------------------------------------------------------------------------
MFresh == MInHook /\ mctl.fresh

C27_NoHookWhenStopped == MFresh => ~terminated(mach)

C27_Step ==
  /\ (~terminated(mach') /\ (MCallStop \/ MHookStop)) => FALSE
  /\ (terminated(mach) /\ ~terminated(mach')) =>
       (mctl'.op = "start" \/ mres' = "invalid_argument")
  /\ (terminated(mach) /\ terminated(mach')) =>
       /\ mach.has_pending_ => mach'.has_pending_
       /\ mctl'.applied <= mctl.applied
  /\ (~started(mach) /\ MIdle /\ mctl'.op # "start" /\ MCallHandle) =>
       /\ mach' = mach
       /\ mctl'.op = "none"
       /\ ~MInHook'
       /\ UNCHANGED <<path_next, registry, root_handle, mhist>>

C27_StoppedMachineIsInert == []C27_NoHookWhenStopped /\ [][C27_Step]_vars

\* A's handle hook has requested a transition to C and called stop(): the
\* event went no further and the transition stays pending
C27_Witness ==
  /\ mctl.pc = "handle_done"
  /\ ~MInHook
  /\ terminated(mach)
  /\ mach.has_pending_
  /\ mach.pending_state_ = "C"
  /\ mctl.hfrom = "A"
  /\ Len(mctl.hs) = 1
  /\ mach.active_state_ = "A"

\* the same machine later: the call has ended, the transition was not applied
C27_WitnessAfter ==
  /\ MIdle
  /\ mres = "ok"
  /\ terminated(mach)
  /\ mach.has_pending_
  /\ mach.pending_state_ = "C"
  /\ mctl.applied = 0
  /\ mach.active_state_ = "A"

\* ------------------------------------------------------------------------
\* C28.  hsm::Machine::started() returns true exactly when start() has been
\* called (it has installed an active state) and the machine is not
\* terminated.
\* ------------------------------------------------------------------------
C28_StartedAccessor ==
  started(mach) <=> (mach.active_state_ # NULL /\ ~terminated(mach))

\* ------------------------------------------------------------------------
\* C29.  hsm::Machine::start() called while the machine is started and not
\* terminated throws std::logic_error and changes neither the registry, the
\* active state nor the pending transition; called on a terminated machine
\* with the id of a declared state it does not throw, clears terminated(),
\* discards any pending transition and enters the new initial state from
\* the root.
\* ------------------------------------------------------------------------
C29_Restarted ==
  /\ mctl.pc = "dt_done"
  /\ ~MInHook
  /\ mctl.op = "start"
  /\ mctl.applied = 0
  /\ mctl.tclean

C29_Entered ==
  C29_Restarted =>
    /\ mctl.thooks = Tag("on_entry", Rev(MBelow(mctl.dest, ROOT)))
    /\ current_state_id(mach) = mctl.dest
    /\ started(mach)

C29_Step ==
  (MIdle /\ mres' \in {"logic_error", "running"} /\ MCallStart) =>
    /\ (started(mach) /\ ~terminated(mach)) =>
         /\ mres' = "logic_error"
         /\ mach' = mach
         /\ mctl'.op = "none"
         /\ UNCHANGED <<path_next, registry, root_handle, mhist>>
    /\ terminated(mach) =>
         /\ mres' = "running"
         /\ ~terminated(mach')
         /\ ~mach'.has_pending_
         /\ mach'.pending_state_ = NULL
         /\ MFresh'
         /\ mctl'.op = "start"
         /\ mctl'.thooks = <<<<"on_entry", Rev(MBelow(mctl'.dest, ROOT))[1]>>>>

C29_StartPreconditions == []C29_Entered /\ [][C29_Step]_vars

\* start() has just been refused on a running machine that has a transition
\* pending
C29_Witness ==
  /\ MIdle
  /\ mres = "logic_error"
  /\ started(mach)
  /\ ~terminated(mach)
  /\ mach.active_state_ = "A"
  /\ mach.has_pending_

\* a machine that has handled an event before (handled_ is left set) is being
\* started again: it was terminated, and P's on_entry hook runs first
C29_WitnessRestart ==
  /\ MFresh
  /\ mctl.op = "start"
  /\ mach.handled_
  /\ mctl.hook = "on_entry"
  /\ mctl.hst = "P"
  /\ mctl.dest = "B"
  /\ ~terminated(mach)
  /\ ~mach.has_pending_

\* ------------------------------------------------------------------------
\* C31.  C engine: in every reachable context in which smf_set_state can be
\* called and accepted, for every state dest, smf__get_topmost_of(ctx, dest)
\* is dest if dest is ctx->current or an ancestor of it, otherwise
\* ctx->current if that is an ancestor of dest, otherwise the lowest common
\* ancestor of ctx->current and dest (NULL when there is none).
\* ------------------------------------------------------------------------
TopmostRule(cur, dest) ==
  IF dest \in AncSelf(cur) THEN dest
  ELSE IF cur \in AncSelf(dest) THEN cur
  ELSE Lca(cur, dest)

C31_TopmostRule ==
  (Inited /\ ctx.flags.is_exit = SMF_OFF) =>
    \A dest \in States : smf__get_topmost_of(ctx, dest) = TopmostRule(ctx.current, dest)

\* ------------------------------------------------------------------------
\* C32.  C engine: when the run hook of a proper ancestor P of the current
\* leaf (ctx->executing == P) calls smf_set_state(ctx, T) with T a proper
\* descendant of P, and no hook terminates or requests a transition, the
\* exit hooks run from the current leaf up to but excluding P, then the
\* entry hooks from P's child on the path to T down to T's resolved leaf;
\* P's own hooks do not run, also when T is the current leaf itself.
\* ------------------------------------------------------------------------
C32_Case ==
  /\ Returned("set_state")
  /\ last.from = "run"
  /\ last.target # NULL
  /\ last.pre.executing # last.pre.current
  /\ last.pre.executing \in AncSelf(last.pre.current)
  /\ last.target # last.pre.executing
  /\ last.pre.executing \in AncSelf(last.target)
  /\ ~last.dirty
  /\ ~Terminated

C32_WitnessComposite ==
  /\ C32_Case
  /\ last.pre.executing = "R"
  /\ last.pre.current = "B"
  /\ last.target = "P"
  /\ last.hooks = <<<<"exit", "B">>, <<"exit", "P">>, <<"entry", "P">>, <<"entry", "A">>>>
  /\ ctx.current = "A"

\* ------------------------------------------------------------------------
\* C33.  hsm::Machine: if a transition is pending when handle(evt) is called,
\* exactly one handle hook is invoked for evt, that of the active state,
\* whatever it returns; no ancestor receives evt, and the pending transition
\* is the next thing the call applies: the target pending at the call unless
\* the hook itself requested another or stopped the machine.
\* ------------------------------------------------------------------------
C33_Case == mctl.pc = "handle_done" /\ ~MInHook /\ mctl.hpend # NULL

C33_OneHook ==
  C33_Case =>
    /\ Len(mctl.hs) <= 1
    /\ \A i \in 1..Len(mctl.hs) : mctl.hs[i].st = mctl.hfrom
    /\ (mctl.hfrom # ROOT \/ root_handle) => Len(mctl.hs) = 1
    /\ mach.has_pending_
    /\ mctl.reqby = NULL => mach.pending_state_ = mctl.hpend

C33_Step ==
  (C33_Case /\ ~terminated(mach)) =>
    /\ mctl'.applied = 1
    /\ mctl'.dest = mach.pending_state_
    /\ mctl'.hs = <<>>
    /\ mctl'.hook # "handle"

C33_PendingAtHandle == []C33_OneHook /\ [][C33_Step]_vars

\* transition(C) was called from outside with A active below P: A's handle
\* hook returned Pass and P did not get the event
C33_Witness ==
  /\ C33_Case
  /\ mctl.hfrom = "A"
  /\ mctl.hpend = "C"
  /\ mctl.hs = <<[st |-> "A", stop |-> TRUE]>>
  /\ ~mach.handled_
  /\ mctl.reqby = NULL
  /\ ~terminated(mach)

\* and the transition to C is being applied: A's on_exit hook runs
C33_WitnessApplied ==
  /\ MFresh
  /\ mctl.op = "handle"
  /\ mctl.hpend = "C"
  /\ mctl.dest = "C"
  /\ mctl.applied = 1
  /\ mctl.thooks = <<<<"on_exit", "A">>>>

\* ------------------------------------------------------------------------
\* C34.  C engine: every smf_run_state call on a non-terminated machine
\* starts with the handled and new_state flags cleared, whatever earlier
\* cycles or smf_set_state calls between cycles left in them, so the event
\* propagates from a leaf that returns SMF_EVENT_PROPAGATE to the next
\* ancestor with a run hook; ctx->current, ctx->previous and userdata are
\* what they were before the call.
\* ------------------------------------------------------------------------
C34_CycleBegins ==
  /\ Idle
  /\ Inited
  /\ ~Terminated
  /\ \/ stack' # <<>> /\ stack'[1].fn = "run_state"
     \/ stack' = <<>> /\ last'.fn = "run_state"

C34_Step ==
  C34_CycleBegins =>
    /\ stack' # <<>> =>
         /\ ctx'.flags.handled = SMF_OFF
         /\ ctx'.flags.new_state = SMF_OFF
         /\ stack'[Len(stack')].kind = "run"
         /\ stack'[Len(stack')].st = RunChain(ctx.current)[1]
    /\ ctx'.current = ctx.current
    /\ ctx'.previous = ctx.previous
    /\ ctx'.userdata = ctx.userdata

C34_Propagates ==
  (C3_Case /\ Len(RunChain(last.pre.current)) >= 2 /\ last.outs # <<>>) =>
    (~last.outs[1].stop => Len(last.outs) >= 2)

C34_FlagsResetEachCycle == []C34_Propagates /\ [][C34_Step]_vars

\* a cycle begins in A after a transition B -> A, which left new_state set
C34_Witness ==
  /\ FreshHook
  /\ Len(stack) = 2
  /\ stack[1].fn = "run_state"
  /\ stack[2].st = "A"
  /\ ctx.current = "A"
  /\ ctx.previous = "B"
  /\ ctx.flags.new_state = SMF_OFF
  /\ ctx.flags.handled = SMF_OFF

\* and the event went from A on to P in that cycle
C34_WitnessPropagated ==
  /\ C3_Case
  /\ last.pre.current = "A"
  /\ ctx.previous = "B"
  /\ Len(last.outs) >= 2
  /\ ~last.outs[1].stop

\* ------------------------------------------------------------------------
\* C35.  C engine: if smf_set_state has only been called from run hooks or
\* from outside any hook since smf_set_initial, then whenever no hook is
\* running and the machine is not terminated, the states whose entry hook
\* has run more recently than their exit hook are exactly ctx->current and
\* its ancestors (among the states that have both hooks), and no hook was
\* ever invoked out of turn.
\* ------------------------------------------------------------------------
C35_Case == Idle /\ Inited /\ ~Terminated /\ hist.clean

C35_EnteredIsActivePath ==
  C35_Case =>
    /\ ~hist.broken
    /\ hist.entered = {s \in AncSelf(ctx.current) : Paired(s)}

\* a cycle in which B passed the event on and P's run hook made a
\* transition that ended in A has returned
C35_Witness ==
  /\ C35_Case
  /\ Returned("run_state")
  /\ last.dirty
  /\ last.pre.current = "B"
  /\ last.outs = <<[st |-> "B", stop |-> FALSE], [st |-> "P", stop |-> TRUE]>>
  /\ ctx.current = "A"
  /\ ctx.previous = "B"
  /\ hist.entered = {"R", "P", "A"}

\* ------------------------------------------------------------------------
\* C36.  C engine: an exit hook is only ever invoked on a state that is
\* entered (its entry hook has run, its exit hook has not run since) and an
\* entry hook only on a state that is not, whatever the sequence of
\* operations, smf_set_state calls made by entry hooks included.
\* ------------------------------------------------------------------------
C36_HooksInTurn == FreshHook => stack[Len(stack)].inorder

\* ------------------------------------------------------------------------
\* C37.  hsm::Machine: whenever control is outside start() and handle(), the
\* machine is started and not terminated and no exception has escaped from
\* a hook since start(), the registered states whose on_entry has run more
\* recently than their on_exit are exactly the active state and its
\* registered ancestors, the implicit root excluded; also after a transition
\* requested by an on_entry hook has cut an entry chain short.
\* ------------------------------------------------------------------------
C37_Case == MIdle /\ started(mach) /\ ~terminated(mach) /\ mhist.clean

ActivePath ==
  {MChain(mach.active_state_)[i] : i \in 1..Len(MChain(mach.active_state_))} \ {ROOT}

C37_Between ==
  (mctl.pc = "dt_done" /\ ~MInHook /\ ~terminated(mach) /\ mhist.clean) =>
    mhist.entered = ActivePath

\* P's on_entry hook asked for C while start() was entering A: the entry
\* chain stops at P, which is active and the only state entered
C37_CutShort ==
  /\ mctl.pc = "dt_done"
  /\ ~MInHook
  /\ mctl.op = "start"
  /\ mctl.applied = 0
  /\ mctl.dest = "A"
  /\ mach.active_state_ = "P"
  /\ mach.pending_state_ = "C"
  /\ mhist.entered = {"P"}
  /\ mhist.clean

C39_Applying == mctl.alast # NULL /\ mctl.op # "none"

EnteredBy(hooks) == {hooks[i][2] : i \in {j \in 1..Len(hooks) : hooks[j][1] = "on_entry"}}

C39_LastRequestWins ==
  /\ mach.has_pending_ => mach.pending_state_ = mhist.last
  /\ C39_Applying =>
       /\ mctl.dest = mctl.alast
       /\ EnteredBy(mctl.thooks) \subseteq MAncSelf(mctl.dest)
       /\ (mctl.hpend # NULL /\ mctl.hpend \notin MAncSelf(mctl.dest)) =>
            mctl.hpend \notin EnteredBy(mctl.thooks)

\* transition(C) was called outside any hook, then handle(): A's handle hook
\* called transition(B); the transition applied went from A to B and C was
\* not entered
C39_Witness ==
  /\ mctl.op = "handle" /\ mctl.pc = "dt_done" /\ ~MInHook
  /\ mctl.hpend = "C" /\ mctl.reqby = "A"
  /\ mctl.alast = "B" /\ mctl.dest = "B"
  /\ mctl.thooks = <<<<"on_exit", "A">>, <<"on_entry", "B">>>>
  /\ mach.active_state_ = "B"
  /\ ~mach.has_pending_

\* ------------------------------------------------------------------------
\* C40.  hsm::Machine: on a started, non-terminated machine, whenever
\* control is outside start() and handle(), transition(id) with a
\* registered id does not throw and records id as the pending target, also
\* after an earlier start() / handle() call ended with an exception thrown
\* from a hook or from transition().
\* ------------------------------------------------------------------------
C40_TransitionAccepted ==
  [][(MIdle /\ started(mach) /\ ~terminated(mach) /\ mres' # "runtime_error: id"
        /\ MCallTransition)
     => (mres' = "ok" /\ mach'.has_pending_ /\ mach'.pending_state_ = mhist'.last)]_vars

====
